---- MODULE Spec2Model ----
(***************************************************************************)
(* Verification model of the ComputeCpp SDK demos:                         *)
(*   - DoubleBuf<T>            (demos/include/double_buf.hpp)              *)
(*   - GravSim<num_t>          (demos/nbody/sim.hpp)                       *)
(*                                                                         *)
(* Two specifications share the DoubleBuf operators:                       *)
(*   SpecDB : a DoubleBuf<T> driven by arbitrary swap/read/write calls     *)
(*   Spec   : the N-body engine: a host thread (constructor, setters,      *)
(*            step, with_mapped) and the SYCL queue executing the          *)
(*            per-body work items of the submitted kernels                 *)
(***************************************************************************)
EXTENDS Integers, Sequences, FiniteSets, TLC

VARIABLES
  buffer,        \* DoubleBuf::buffer, the role flag
  m_a,           \* DoubleBuf::m_a
  m_b,           \* DoubleBuf::m_b
  db,            \* SpecDB: record of the last calls made on the DoubleBuf
  pc,            \* position of the host thread
  m_n_bodies,    \* GravSim::m_n_bodies
  m_time,        \* GravSim::m_time, in tenths
  m_force,       \* GravSim::m_force
  m_integrator,  \* GravSim::m_integrator
  queue,         \* kernels submitted to m_q and not yet complete
  nflips,        \* number of changes of the role flag so far
  steps,         \* number of internal_step calls that have returned
  lastDone,      \* the kernel that completed last, and what it left behind
  view,          \* what the last with_mapped call exposed
  params,        \* the distribution parameters of the constructor call
  calc,          \* SpecNum, SpecSet, SpecRule, SpecMandel: the evaluation in progress
  life           \* SpecLife: the GameOfLifeSim object and its queue

vars == <<buffer, m_a, m_b, db, pc, m_n_bodies, m_time, m_force,
          m_integrator, queue, nflips, steps, lastDone, view, params, calc,
          life>>

simvars == <<pc, m_n_bodies, m_time, m_force, m_integrator, queue, nflips,
             steps, lastDone, view, params>>

----------------------------------------------------------------------------
(* Bounds *)

MaxVal == 2         \* DoubleBuf<T> contents range over 0..MaxVal in SpecDB
MaxSwaps == 4       \* swap() calls counted in SpecDB
MaxBodies == 2      \* largest n_bodies
MaxSteps == 2       \* step() calls per run
MaxParam == 1       \* range parameters have min and max in 0..MaxParam

----------------------------------------------------------------------------
(* DoubleBuf<T>                                                            *)

\* a swap() that only ever selects USE_B
swap_stuck(b) == "USE_B"

\* a swap() that leaves the flag alone
swap_noop(b) == b

swap(b) == IF b = "USE_A" THEN "USE_B" ELSE "USE_A"

\* a write() whose USE_A branch returns m_a
write_alias(b) == IF b = "USE_A" THEN "a" ELSE "a"

\* read() and write() return a reference to one of the two members; the
\* reference is modelled by the member's name
read(b) == IF b = "USE_A" THEN "a" ELSE "b"

write(b) == IF b = "USE_A" THEN "b" ELSE "a"

\* the member a reference designates
Deref(ref) == IF ref = "a" THEN m_a ELSE m_b

NoCall == [op1 |-> "none", op2 |-> "none", before1 |-> "USE_A",
           before2 |-> "USE_A", r1 |-> "a", w1 |-> "b", r2 |-> "a",
           w2 |-> "b", ret |-> "none", nswaps |-> 0]

\* shift the call record: the call `op` is made in the current state
Called(op, ret) ==
  [op1 |-> op, op2 |-> db.op1,
   before1 |-> buffer, before2 |-> db.before1,
   r1 |-> read(buffer), w1 |-> write(buffer),
   r2 |-> db.r1, w2 |-> db.w1,
   ret |-> ret,
   nswaps |-> IF op = "swap" THEN db.nswaps + 1 ELSE db.nswaps]

NoParams == [radius |-> <<0, 0>>, angle |-> <<0, 0>>, height |-> <<0, 0>>]

NoCalc == [valid |-> FALSE]

NoLife == [valid |-> FALSE]

SimOff ==
  /\ pc = "off"
  /\ params = NoParams
  /\ m_n_bodies = 0
  /\ m_time = 0
  /\ m_force = "GRAVITY"
  /\ m_integrator = "EULER"
  /\ queue = <<>>
  /\ nflips = 0
  /\ steps = 0
  /\ lastDone = [valid |-> FALSE]
  /\ view = [valid |-> FALSE]

\* what std::forward<U>(vals) yields the second time, after m_a was built
\* from it: the argument itself when it is an lvalue, the moved-from
\* object (valid, value unspecified) when it is an rvalue
ForwardedAgain(v, category) ==
  IF category = "lvalue" THEN {v} ELSE 0..MaxVal

\* DoubleBuf(U&&... vals): m_a(std::forward<U>(vals)...) and then
\* m_b(std::forward<U>(vals)...)
InitDB ==
  /\ buffer = "USE_A"
  /\ \E v \in 0..MaxVal, category \in {"lvalue", "rvalue"} :
       /\ m_a = v
       /\ m_b \in ForwardedAgain(v, category)
  /\ db = NoCall
  /\ SimOff
  /\ calc = NoCalc
  /\ life = NoLife

DBSwap ==
  /\ db.nswaps < MaxSwaps
  /\ buffer' = swap(buffer)
  /\ db' = Called("swap", "none")
  /\ UNCHANGED <<m_a, m_b>>
  /\ UNCHANGED <<simvars, calc, life>>

DBRead ==
  /\ db' = Called("read", read(buffer))
  /\ UNCHANGED <<buffer, m_a, m_b>>
  /\ UNCHANGED <<simvars, calc, life>>

\* write() followed by an assignment through the returned reference
DBWrite ==
  /\ \E v \in 0..MaxVal :
       /\ m_a' = IF write(buffer) = "a" THEN v ELSE m_a
       /\ m_b' = IF write(buffer) = "b" THEN v ELSE m_b
  /\ db' = Called("write", write(buffer))
  /\ UNCHANGED buffer
  /\ UNCHANGED <<simvars, calc, life>>

NextDB == DBSwap \/ DBRead \/ DBWrite

SpecDB == InitDB /\ [][NextDB]_vars

----------------------------------------------------------------------------
(* DoubleBuf properties (checked under SpecDB)                             *)

\* C1: in every state reachable by swap(), read() and write() calls, read()
\* and write() return two distinct instances: one of m_a, m_b is the read
\* generation and the other is the write generation.
C1_ReadWriteDistinct ==
  /\ read(buffer) # write(buffer)
  /\ {read(buffer), write(buffer)} = {"a", "b"}
  /\ db.r1 # db.w1
  /\ db.op1 = "read" => db.ret = db.r1 /\ db.ret # write(buffer)
  /\ db.op1 = "write" => db.ret = db.w1 /\ db.ret # read(buffer)

C1_Witness ==
  /\ db.op1 = "write"
  /\ db.op2 = "read"
  /\ db.nswaps >= 1

\* C2: one swap() exchanges the roles: the instance write() returned before
\* the swap is the one read() returns after it, and the instance read()
\* returned before the swap is the one write() returns after it.
C2_SwapExchangesRoles ==
  db.op1 = "swap" => /\ read(buffer) = db.w1
                     /\ write(buffer) = db.r1

C2_Witness ==
  /\ db.op1 = "swap"
  /\ db.before1 = "USE_B"
  /\ db.op2 = "write"

\* C3: swap() is an involution: two consecutive swap() calls restore the
\* read()/write() assignment that held before them, and after any even
\* number of swaps the assignment is the one construction set up.
C3_SwapInvolution ==
  /\ (db.op1 = "swap" /\ db.op2 = "swap") =>
        /\ buffer = db.before2
        /\ read(buffer) = db.r2
        /\ write(buffer) = db.w2
  /\ db.nswaps % 2 = 0 => read(buffer) = "a" /\ write(buffer) = "b"

C3_Witness ==
  /\ db.op1 = "swap"
  /\ db.op2 = "swap"
  /\ db.before2 = "USE_B"
  /\ db.nswaps >= 3

\* C16: the two instances held by a DoubleBuf share no state: both are
\* built from the same constructor argument values, and a modification made
\* through write() leaves the contents of the instance returned by read()
\* unchanged.
C16_NoSharedState ==
  /\ m_a = m_b
  /\ [][DBWrite => /\ read(buffer) = "a" => m_a' = m_a
                   /\ read(buffer) = "b" => m_b' = m_b]_vars

----------------------------------------------------------------------------
(* GravSim<num_t>                                                          *)
(*                                                                         *)
(* The host thread runs the constructor, the setters, with_mapped and      *)
(* internal_step.  internal_step is three host steps (submit, swap, time   *)
(* advance) because the kernel it submits runs asynchronously on the SYCL  *)
(* queue: its work items may run at any point after the submission, in any *)
(* order, once the kernels they depend on through their accessors have     *)
(* completed.                                                              *)
(*                                                                         *)
(* Body data is symbolic: a cell records which code wrote it (gen: 0 for   *)
(* the constructor's sample, k for the kernel of the k-th step, -1 for     *)
(* storage never written) and which cells were read to compute it.         *)

Bodies(n) == 0..(n - 1)

\* STEP_SIZE = num_t(.5), in tenths
STEP_SIZE == 5

Undef(c, i) == [gen |-> -1, by |-> "undef", f |-> "", c |-> c, i |-> i,
                in |-> <<>>]

\* the identity of a cell, as recorded by the cells computed from it
Tag(cell) == <<cell.gen, cell.by, cell.f, cell.c, cell.i>>

\* SyclBufs<vec3, vec3>(n_bodies): two buffers of n elements, not initialized
SyclBufs(n) == [vel |-> [i \in Bodies(n) |-> Undef("vel", i)],
                pos |-> [i \in Bodies(n) |-> Undef("pos", i)]]

NoKernel == [step |-> 0, rd |-> "a", wr |-> "b", t |-> 0, n |-> 0,
             integrator |-> "EULER", force |-> "GRAVITY", pending |-> {},
             started |-> FALSE, snap |-> SyclBufs(0), wsnap |-> SyclBufs(0),
             wcnt |-> [i \in Bodies(0) |-> 0], late |-> FALSE, flips |-> 0]

NoDone == [valid |-> FALSE, k |-> NoKernel, result |-> SyclBufs(0)]

NoView == [valid |-> FALSE, buf |-> "a", var |-> "pos",
           data |-> SyclBufs(0).pos, n |-> 0, steps |-> 0]

\* a range parameter: sycl::vec<num_t, 2> holding (min, max)
Range == (0..MaxParam) \X (0..MaxParam)

\* distrib_cylinder / distrib_sphere: the ranges of the distribution
Params == [radius : Range, angle : Range, height : Range]

\* GravSim(size_t n_bodies): the member initializers; m_integrator is not
\* among them and starts with an indeterminate value.  The constructor
\* call is in progress: its argument params is alive until it returns.
Init ==
  /\ buffer = "USE_A"
  /\ \E n \in 1..MaxBodies :
       /\ m_n_bodies = n
       /\ m_a = SyclBufs(n)
       /\ m_b = SyclBufs(n)
  /\ m_time = 0
  /\ m_force = "GRAVITY"
  /\ m_integrator \in {"EULER", "RK4", "INDETERMINATE"}
  /\ db = NoCall
  /\ pc = "ctor"
  /\ queue = <<>>
  /\ nflips = 0
  /\ steps = 0
  /\ lastDone = NoDone
  /\ view = NoView
  /\ params \in Params
  /\ calc = NoCalc
  /\ life = NoLife

\* the flag after a swap(), and the count of its changes
Flipped(b) == IF swap(b) # b THEN nflips + 1 ELSE nflips

\* a sphere constructor whose velocities are sampled like its positions
Sample_moving(distrib, c, i) ==
  [gen |-> 0, by |-> distrib, f |-> "", c |-> c, i |-> i, in |-> <<>>]

\* the sample a distribution constructor stores at index i: {0, 0, 0} for
\* the velocities of the sphere distribution, a vector computed from the
\* random draws (not tracked) otherwise
Sample(distrib, c, i) ==
  [gen |-> 0, by |-> distrib, f |-> "", c |-> c, i |-> i,
   in |-> IF distrib = "sphere" /\ c = "vel" THEN <<0, 0, 0>> ELSE <<>>]

\* a constructor that returns without the swap
Construct_noswap(distrib) ==
  /\ pc = "ctor"
  /\ LET W == [vel |-> [i \in Bodies(m_n_bodies) |-> Sample(distrib, "vel", i)],
               pos |-> [i \in Bodies(m_n_bodies) |-> Sample(distrib, "pos", i)]]
     IN /\ m_a' = IF write(buffer) = "a" THEN W ELSE m_a
        /\ m_b' = IF write(buffer) = "b" THEN W ELSE m_b
  /\ m_time' = 0
  /\ pc' = "idle"
  /\ params' = NoParams
  /\ UNCHANGED <<db, calc, life, m_n_bodies, m_force, m_integrator, queue,
                 steps, lastDone, view, buffer, nflips>>

\* GravSim(n_bodies, distrib_cylinder) / GravSim(n_bodies, distrib_sphere):
\* fill the write generation through host accessors, swap, reset time
Construct(distrib) ==
  /\ pc = "ctor"
  /\ LET W == [vel |-> [i \in Bodies(m_n_bodies) |-> Sample(distrib, "vel", i)],
               pos |-> [i \in Bodies(m_n_bodies) |-> Sample(distrib, "pos", i)]]
     IN /\ m_a' = IF write(buffer) = "a" THEN W ELSE m_a
        /\ m_b' = IF write(buffer) = "b" THEN W ELSE m_b
  /\ buffer' = swap(buffer)
  /\ nflips' = Flipped(buffer)
  /\ m_time' = 0
  /\ pc' = "idle"
  /\ params' = NoParams
  /\ UNCHANGED <<db, calc, life,
                 m_n_bodies, m_force, m_integrator, queue, steps,
                 lastDone, view>>

set_force_type(f) ==
  /\ pc = "idle"
  /\ m_force' = f
  /\ view' = NoView
  /\ UNCHANGED <<buffer, m_a, m_b, db, calc, life, params,
                 pc, m_n_bodies, m_time, m_integrator,
                 queue, nflips, steps, lastDone>>

set_integrator(i) ==
  /\ pc = "idle"
  /\ m_integrator' = i
  /\ view' = NoView
  /\ UNCHANGED <<buffer, m_a, m_b, db, calc, life, params,
                 pc, m_n_bodies, m_time, m_force,
                 queue, nflips, steps, lastDone>>

\* a command group whose write accessors are taken from read()
CommandGroup_wr_rd ==
  [step |-> steps + 1,
   rd |-> read(buffer),
   wr |-> read(buffer),
   t |-> m_time,
   n |-> m_n_bodies,
   integrator |-> m_integrator,
   force |-> m_force,
   pending |-> Bodies(m_n_bodies),
   started |-> FALSE,
   snap |-> Deref(read(buffer)),
   wsnap |-> Deref(read(buffer)),
   wcnt |-> [i \in Bodies(m_n_bodies) |-> 0],
   late |-> FALSE,
   flips |-> nflips]

\* the command group of internal_step: the accessors are taken from
\* read() and write() and the fields are copied while submit() runs
CommandGroup ==
  [step |-> steps + 1,
   rd |-> read(buffer),
   wr |-> write(buffer),
   t |-> m_time,
   n |-> m_n_bodies,
   integrator |-> m_integrator,
   force |-> m_force,
   pending |-> Bodies(m_n_bodies),
   started |-> FALSE,
   snap |-> Deref(read(buffer)),
   wsnap |-> Deref(write(buffer)),
   wcnt |-> [i \in Bodies(m_n_bodies) |-> 0],
   late |-> FALSE,
   flips |-> nflips]

\* internal_step, first part: m_q.submit(...)
Submit ==
  /\ pc = "idle"
  /\ steps < MaxSteps
  /\ queue' = Append(queue, CommandGroup)
  /\ pc' = "submitted"
  /\ view' = NoView
  /\ UNCHANGED <<buffer, m_a, m_b, db, calc, life, params,
                 m_n_bodies, m_time, m_force,
                 m_integrator, nflips, steps, lastDone>>

\* internal_step, second part: m_bufs.swap()
SwapStep ==
  /\ pc = "submitted"
  /\ buffer' = swap(buffer)
  /\ nflips' = Flipped(buffer)
  /\ pc' = "swapped"
  /\ UNCHANGED <<m_a, m_b, db, calc, life, params,
                 m_n_bodies, m_time, m_force, m_integrator,
                 queue, steps, lastDone, view>>

\* a time advance that runs twice
advance_twice(t) == t + STEP_SIZE + STEP_SIZE

\* m_time += STEP_SIZE
advance(t) == t + STEP_SIZE

\* internal_step, third part: m_time += STEP_SIZE, and return
AdvanceTime ==
  /\ pc = "swapped"
  /\ m_time' = advance(m_time)
  /\ steps' = steps + 1
  /\ pc' = "idle"
  /\ UNCHANGED <<buffer, m_a, m_b, db, calc, life, params,
                 m_n_bodies, m_force, m_integrator,
                 queue, nflips, lastDone, view>>

\* two command groups are ordered by the runtime when one writes a buffer
\* the other accesses
Conflict(k1, k2) ==
  \/ k1.wr \in {k2.rd, k2.wr}
  \/ k2.wr \in {k1.rd, k1.wr}

\* a kernel that starts without waiting for the earlier ones
Runnable_nodep(qi) == TRUE

\* the accessors of kernel qi are available: every earlier command group
\* it conflicts with has completed
Runnable(qi) ==
  \A j \in 1..(qi - 1) : ~Conflict(queue[j], queue[qi])

\* a work item that reads through the write accessors
UnitSource_wr(k) == k.wr

\* vel and pos of the kernel are the read accessors
UnitSource(k) == k.rd

\* the force closure of a work item: grav (GRAVITY) or force
\* (LENNARD_JONES); it sums over pos[i], i < n_bodies
grav(k, id, P) == [f |-> k.force, id |-> id,
                   pos |-> [i \in Bodies(k.n) |-> Tag(P[i])]]

\* the integrators return (velocity, position, time) computed from the
\* force closure, the body's velocity and position, and the time
integrate_step_euler(fn, v0, p0, t) ==
  [vel |-> [by |-> "EULER", f |-> fn.f, in |-> <<fn.pos, Tag(v0), Tag(p0)>>],
   pos |-> [by |-> "EULER", f |-> fn.f, in |-> <<fn.pos, Tag(v0), Tag(p0)>>]]

integrate_step_rk4(fn, v0, p0, t) ==
  [vel |-> [by |-> "RK4", f |-> fn.f, in |-> <<fn.pos, Tag(v0), Tag(p0)>>],
   pos |-> [by |-> "RK4", f |-> fn.f, in |-> <<fn.pos, Tag(v0), Tag(p0)>>]]

\* the value std::tie assigns to wvel[id] or wpos[id]
Stored(k, c, id, r) ==
  [gen |-> k.step, by |-> r.by, f |-> r.f, c |-> c, i |-> id, in |-> r.in]

\* the kernel lambda for work item id, reading R: what it assigns to
\* wvel[id] and wpos[id], if it assigns at all
WorkItem(k, id, R) ==
  LET fn == grav(k, id, R.pos)
  IN IF k.integrator = "EULER"
       THEN LET r == integrate_step_euler(fn, R.vel[id], R.pos[id], k.t)
            IN [write |-> TRUE, vel |-> Stored(k, "vel", id, r.vel),
                pos |-> Stored(k, "pos", id, r.pos)]
     ELSE IF k.integrator = "RK4"
       THEN LET r == integrate_step_rk4(fn, R.vel[id], R.pos[id], k.t)
            IN [write |-> TRUE, vel |-> Stored(k, "vel", id, r.vel),
                pos |-> Stored(k, "pos", id, r.pos)]
     ELSE [write |-> FALSE, vel |-> Undef("vel", id), pos |-> Undef("pos", id)]

RemoveAt(s, i) == SubSeq(s, 1, i - 1) \o SubSeq(s, i + 1, Len(s))

\* one work item of the parallel_for of kernel qi
Unit(qi, id) ==
  /\ qi \in 1..Len(queue)
  /\ id \in queue[qi].pending
  /\ Runnable(qi)
  /\ LET k == queue[qi]
         R == Deref(UnitSource(k))
         W == Deref(k.wr)
         snap == IF k.started THEN k.snap ELSE Deref(k.rd)
         wsnap == IF k.started THEN k.wsnap ELSE Deref(k.wr)
         out == WorkItem(k, id, R)
         W2 == IF out.write
                 THEN [W EXCEPT !.vel[id] = out.vel, !.pos[id] = out.pos]
                 ELSE W
         k2 == [k EXCEPT !.pending = @ \ {id},
                         !.started = TRUE,
                         !.snap = snap,
                         !.wsnap = wsnap,
                         !.wcnt[id] = IF out.write THEN @ + 1 ELSE @,
                         !.late = @ \/ (out.write /\ nflips > k.flips)]
     IN /\ m_a' = IF k.wr = "a" THEN W2 ELSE m_a
        /\ m_b' = IF k.wr = "b" THEN W2 ELSE m_b
        /\ queue' = IF k2.pending = {} THEN RemoveAt(queue, qi)
                                       ELSE [queue EXCEPT ![qi] = k2]
        /\ lastDone' = IF k2.pending = {}
                         THEN [valid |-> TRUE, k |-> k2, result |-> W2]
                         ELSE lastDone
  /\ UNCHANGED <<buffer, db, calc, life, params,
                 pc, m_n_bodies, m_time, m_force, m_integrator,
                 nflips, steps, view>>

\* a host accessor on a buffer waits for the kernels writing it
HostReadable(ref) == \A j \in 1..Len(queue) : queue[j].wr # ref

\* with_mapped(read_bufs_t<VarId>, func): func sees buffer VarId of read();
\* the mapping ends with the call, so the next host call finds no view
with_mapped(var) ==
  /\ pc = "idle"
  /\ HostReadable(read(buffer))
  /\ view' = [valid |-> TRUE, buf |-> read(buffer), var |-> var,
              data |-> Deref(read(buffer))[var], n |-> m_n_bodies,
              steps |-> steps]
  /\ UNCHANGED <<buffer, m_a, m_b, db, calc, life, params,
                 pc, m_n_bodies, m_time, m_force,
                 m_integrator, queue, nflips, steps, lastDone>>

Next ==
  \/ \E d \in {"cylinder", "sphere"} : Construct(d)
  \/ \E f \in {"GRAVITY", "LENNARD_JONES"} : set_force_type(f)
  \/ \E i \in {"EULER", "RK4"} : set_integrator(i)
  \/ Submit
  \/ SwapStep
  \/ AdvanceTime
  \/ \E qi \in 1..MaxSteps + 1, id \in Bodies(MaxBodies + 1) : Unit(qi, id)
  \/ \E var \in {"vel", "pos"} : with_mapped(var)

Spec == Init /\ [][Next]_vars

----------------------------------------------------------------------------
(* GravSim properties (checked under Spec)                                 *)

\* the kernels on the queue, and the one that completed last
Queued == {queue[j] : j \in 1..Len(queue)}

Kernels == Queued \cup (IF lastDone.valid THEN {lastDone.k} ELSE {})

\* the write generation of kernel q as it stands: the buffer itself while
\* q is on the queue, what q left when it completed otherwise
WrittenBy(q) == IF q \in Queued THEN Deref(q.wr) ELSE lastDone.result

C5_EveryIndexWrittenOnceBeforeSwap ==
  lastDone.valid =>
    /\ \A i \in Bodies(lastDone.k.n) :
         /\ lastDone.k.wcnt[i] = 1
         /\ lastDone.result.vel[i].gen = lastDone.k.step
         /\ lastDone.result.pos[i].gen = lastDone.k.step
    /\ ~lastDone.k.late

\* what a work item of kernel q reads for body id when it reads the read
\* generation as it stood when q started
ReadAtStart(q, id) ==
  <<[i \in Bodies(q.n) |-> Tag(q.snap.pos[i])],
    Tag(q.snap.vel[id]), Tag(q.snap.pos[id])>>

\* C6: during a step, every value a per-body unit reads (its own velocity
\* and position and the full position array of the force evaluation) comes
\* from the read generation as it stood when the step's kernel started; the
\* read generation is not the write generation and does not change while
\* the kernel runs, and no value read is an output of the same step.
C6_ReadsFromReadGeneration ==
  \A q \in Kernels :
    /\ q.rd # q.wr
    /\ (q \in Queued /\ q.started) => Deref(q.rd) = q.snap
    /\ \A id \in Bodies(q.n) \ q.pending :
         q.wcnt[id] > 0 =>
           /\ WrittenBy(q).vel[id].in = ReadAtStart(q, id)
           /\ WrittenBy(q).pos[id].in = ReadAtStart(q, id)
           /\ \A i \in Bodies(q.n) : WrittenBy(q).vel[id].in[1][i][1] < q.step
           /\ WrittenBy(q).vel[id].in[2][1] < q.step
           /\ WrittenBy(q).vel[id].in[3][1] < q.step

C6_Witness ==
  \E q \in Queued :
    /\ q.step = 2
    /\ q.n = 2
    /\ q.pending = {0}
    /\ q.wcnt[1] = 1
    /\ pc = "idle"

\* C7: the role flag changes exactly once per completed step: after
\* construction and k completed steps it has been flipped k + 1 times (once
\* by the constructor, once per step), and every step is submitted after
\* the swap of the previous step.
C7_OneFlipPerStep ==
  /\ pc = "ctor" => nflips = 0
  /\ pc \in {"idle", "submitted"} => nflips = steps + 1
  /\ pc = "swapped" => nflips = steps + 2
  /\ buffer = (IF nflips % 2 = 0 THEN "USE_A" ELSE "USE_B")
  /\ \A q \in Kernels : q.flips = q.step

C7_Witness ==
  /\ pc = "idle"
  /\ steps = 2
  /\ nflips = 3
  /\ queue = <<>>

\* C8: whenever with_mapped is called, the data it exposes is the read
\* generation and that generation is fully written: all n indices hold the
\* result of the same last completed step (or the initial sample), and no
\* kernel is still writing it.
C8_ViewFullyWritten ==
  view.valid =>
    /\ view.buf = read(buffer)
    /\ \A i \in Bodies(view.n) : view.data[i].gen = view.steps
    /\ \A q \in Queued : q.wr # view.buf

\* the write generation kernel q leaves behind when its work items run one
\* after the other on the read generation as it stood when q started
StepResult(q) ==
  LET out == [i \in Bodies(q.n) |-> WorkItem(q, i, q.snap)]
  IN [vel |-> [i \in Bodies(q.n) |->
                 IF out[i].write THEN out[i].vel ELSE q.wsnap.vel[i]],
      pos |-> [i \in Bodies(q.n) |->
                 IF out[i].write THEN out[i].pos ELSE q.wsnap.pos[i]]]

\* C9: the result of one step (the full write generation after the step)
\* is the same for every execution order and every interleaving of the n
\* per-body units.
C9_OrderIndependent ==
  lastDone.valid => lastDone.result = StepResult(lastDone.k)

C9_Witness ==
  /\ lastDone.valid
  /\ lastDone.k.n = 2
  /\ lastDone.k.step = 2
  /\ lastDone.k.integrator = "RK4"
  /\ lastDone.k.late

\* C10: simulated time is 0 after construction and grows by exactly
\* STEP_SIZE on each step, the increment coming after the step's swap:
\* after k completed steps time is k * STEP_SIZE.
C10_TimeAdvance ==
  /\ pc = "ctor" => m_time = 0
  /\ m_time = steps * STEP_SIZE
  /\ pc \in {"idle", "submitted"} => m_time = (nflips - 1) * STEP_SIZE
  /\ pc = "swapped" => m_time = (nflips - 2) * STEP_SIZE
  /\ \A q \in Kernels : q.t = (q.step - 1) * STEP_SIZE

C10_Witness ==
  /\ pc = "idle"
  /\ steps = 2
  /\ m_time = 10

\* C11: construction with either distribution writes a velocity and a
\* position at every index in [0, n) of the initial write generation and
\* then swaps exactly once, so that directly after construction the read
\* generation is the populated one and the positions view yields exactly n
\* sampled 3-vectors.
C11_ConstructionPopulates ==
  (pc \in {"idle", "submitted"} /\ steps = 0) =>
    /\ nflips = 1
    /\ read(buffer) = "b"
    /\ DOMAIN Deref(read(buffer)).vel = Bodies(m_n_bodies)
    /\ DOMAIN Deref(read(buffer)).pos = Bodies(m_n_bodies)
    /\ \E d \in {"cylinder", "sphere"} :
         \A i \in Bodies(m_n_bodies) :
           /\ Deref(read(buffer)).vel[i] = Sample(d, "vel", i)
           /\ Deref(read(buffer)).pos[i] = Sample(d, "pos", i)
    /\ view.valid =>
         /\ view.n = m_n_bodies
         /\ DOMAIN view.data = Bodies(m_n_bodies)
         /\ \A i \in Bodies(m_n_bodies) :
              /\ view.data[i].gen = 0
              /\ view.data[i].c = view.var
              /\ view.data[i].i = i

C11_Witness ==
  /\ view.valid
  /\ view.var = "pos"
  /\ view.steps = 0
  /\ view.n = 2
  /\ view.data[1].by = "cylinder"

\* a constructor call whose configuration the claim calls an error
BadConfig(distrib) ==
  \/ m_n_bodies = 0
  \/ params.radius[1] > params.radius[2]
  \/ distrib = "cylinder" /\ \/ params.angle[1] > params.angle[2]
                             \/ params.height[1] > params.height[2]

\* C12: constructing the engine with n_bodies == 0, or with a range
\* parameter (radius, angle or height) whose min exceeds its max, is
\* detected at construction and does not yield a usable engine: no such
\* constructor call returns with the engine ready for step().
C12_BadConfigRejected ==
  [][\A d \in {"cylinder", "sphere"} :
       (Construct(d) /\ BadConfig(d)) => pc' # "idle"]_vars

\* C15: the sphere-distribution constructor gives every body index in
\* [0, n) the zero vector as initial velocity, so that directly after
\* construction every velocity in the read generation is (0, 0, 0).
C15_SphereVelocityZero ==
  (/\ pc \in {"idle", "submitted"}
   /\ steps = 0
   /\ Deref(read(buffer)).pos[0].by = "sphere") =>
    \A i \in Bodies(m_n_bodies) :
      /\ Deref(read(buffer)).vel[i].by = "sphere"
      /\ Deref(read(buffer)).vel[i].in = <<0, 0, 0>>

C15_Witness ==
  /\ pc = "idle"
  /\ steps = 0
  /\ m_n_bodies = 2
  /\ Deref(read(buffer)).pos[1].by = "sphere"
  /\ Deref(read(buffer)).vel[1].in = <<0, 0, 0>>

\* C18: a per-body work unit changes nothing except the velocity and the
\* position at its own index of the write generation: the read generation,
\* every other index of the write generation, the role flag, time, n_bodies
\* and the selections are unchanged by it.
C18_UnitFrame ==
  [][\A qi \in 1..Len(queue) : \A id \in queue[qi].pending :
       Unit(qi, id) =>
         LET k == queue[qi]
         IN /\ k.rd = "a" => m_a' = m_a
            /\ k.rd = "b" => m_b' = m_b
            /\ \A j \in Bodies(k.n) \ {id} :
                 /\ m_a'.vel[j] = m_a.vel[j]
                 /\ m_a'.pos[j] = m_a.pos[j]
                 /\ m_b'.vel[j] = m_b.vel[j]
                 /\ m_b'.pos[j] = m_b.pos[j]
            /\ buffer' = buffer
            /\ nflips' = nflips
            /\ m_time' = m_time
            /\ m_n_bodies' = m_n_bodies
            /\ m_force' = m_force
            /\ m_integrator' = m_integrator]_vars

C18_Witness ==
  \E q \in Queued :
    /\ q.step = 1
    /\ q.n = 2
    /\ q.pending = {1}
    /\ q.wcnt[0] = 1
    /\ pc = "swapped"


----------------------------------------------------------------------------
(* num_t arithmetic.                                                       *)
(* A num_t value is tracked exactly as a reduced fraction n/d while both   *)
(* n and d stay within MaxExact; the IEEE results of the operations that   *)
(* leave the finite numbers are kept as they are: +-inf and NaN.  A finite *)
(* value outside the exact window is "unk": a value that is not tracked    *)
(* any further and about which nothing is asserted.                        *)

MaxExact == 30000

RECURSIVE GCD(_, _)
GCD(a, b) == IF b = 0 THEN a ELSE GCD(b, a % b)

Abs(n) == IF n < 0 THEN 0 - n ELSE n
Sign(n) == IF n < 0 THEN 0 - 1 ELSE 1

NaN == [k |-> "nan", n |-> 0, d |-> 0]
Unk == [k |-> "unk", n |-> 0, d |-> 0]
Inf(sign) == [k |-> "inf", n |-> sign, d |-> 0]

\* the fraction n/d, d # 0, reduced
Q(n, d) ==
  LET g == GCD(Abs(n), Abs(d))
      nn == (Sign(d) * n) \div g
      dd == Abs(d) \div g
  IN IF Abs(nn) > MaxExact \/ dd > MaxExact
       THEN Unk
       ELSE [k |-> "q", n |-> nn, d |-> dd]

Num(n) == Q(n, 1)
Zero == Num(0)
NonFinite(a) == a.k \in {"inf", "nan"}
IsZero(a) == a.k = "q" /\ a.n = 0

\* the one element of a singleton: operands are bound in a singleton so
\* that each is evaluated once
The(S) == CHOOSE r \in S : TRUE

Neg(a0) ==
  LET op(a) == IF a.k = "q" THEN [a EXCEPT !.n = 0 - a.n]
               ELSE IF a.k = "inf" THEN Inf(0 - a.n)
               ELSE a
  IN The({op(a) : a \in {a0}})

\* a + b
Add(a0, b0) ==
  LET op(a, b) ==
        IF a.k = "nan" \/ b.k = "nan" THEN NaN
        ELSE IF a.k = "unk" \/ b.k = "unk" THEN Unk
        ELSE IF a.k = "inf" /\ b.k = "inf" THEN IF a.n = b.n THEN a ELSE NaN
        ELSE IF a.k = "inf" THEN a
        ELSE IF b.k = "inf" THEN b
        ELSE Q(a.n * b.d + b.n * a.d, a.d * b.d)
  IN The({op(a, b) : a \in {a0}, b \in {b0}})

Sub(a, b) == Add(a, Neg(b))

\* a * b
Mul(a0, b0) ==
  LET op(a, b) ==
        IF a.k = "nan" \/ b.k = "nan" THEN NaN
        ELSE IF a.k = "unk" \/ b.k = "unk" THEN Unk
        ELSE IF a.k = "inf" \/ b.k = "inf"
          THEN IF IsZero(a) \/ IsZero(b) THEN NaN
               ELSE Inf(Sign(a.n) * Sign(b.n))
        ELSE Q(a.n * b.n, a.d * b.d)
  IN The({op(a, b) : a \in {a0}, b \in {b0}})

\* a / b: finite / 0 is +-inf, 0 / 0 and inf / inf are NaN
Div(a0, b0) ==
  LET op(a, b) ==
        IF a.k = "nan" \/ b.k = "nan" THEN NaN
        ELSE IF a.k = "unk" \/ b.k = "unk" THEN Unk
        ELSE IF a.k = "inf"
          THEN IF b.k = "inf" THEN NaN ELSE Inf(Sign(a.n) * Sign(b.n))
        ELSE IF b.k = "inf" THEN Zero
        ELSE IF b.n = 0 THEN IF a.n = 0 THEN NaN ELSE Inf(Sign(a.n))
        ELSE Q(a.n * b.d * Sign(b.n), a.d * Abs(b.n))
  IN The({op(a, b) : a \in {a0}, b \in {b0}})

\* the integer square root of n > 0 by Newton's iteration from s
RECURSIVE RootFrom(_, _)
RootFrom(n, s) ==
  LET t == (s + n \div s) \div 2
  IN IF t >= s THEN s ELSE RootFrom(n, t)

Root(n) == IF n = 0 THEN 0 ELSE RootFrom(n, n)

\* sycl::sqrt: exact on the squares of fractions, untracked elsewhere
Sqrt(a0) ==
  LET op(a) ==
        IF a.k = "nan" \/ a.k = "unk" THEN a
        ELSE IF a.k = "inf" THEN IF a.n > 0 THEN a ELSE NaN
        ELSE IF a.n < 0 THEN NaN
        ELSE The({IF rn * rn = a.n /\ rd * rd = a.d THEN Q(rn, rd) ELSE Unk :
                    rn \in {Root(a.n)}, rd \in {Root(a.d)}})
  IN The({op(a) : a \in {a0}})

RECURSIVE IPow(_, _)
IPow(a, e) == IF e = 0 THEN Num(1) ELSE Mul(a, IPow(a, e - 1))

\* sycl::pow(a, -e) for an even e > 0: pow(+-0, -e) is +inf and
\* pow(+-inf, -e) is 0
PowNeg(a0, e) ==
  LET op(a) ==
        IF a.k = "nan" \/ a.k = "unk" THEN a
        ELSE IF a.k = "inf" THEN Zero
        ELSE IF a.n = 0 THEN Inf(1)
        ELSE Div(Num(1), IPow(a, e))
  IN The({op(a) : a \in {a0}})

\* vec3<num_t>
Vec(x, y, z) == <<x, y, z>>
VZero == Vec(Zero, Zero, Zero)
VAdd(u0, v0) ==
  The({<<Add(u[1], v[1]), Add(u[2], v[2]), Add(u[3], v[3])>> :
         u \in {u0}, v \in {v0}})
VSub(u0, v0) ==
  The({<<Sub(u[1], v[1]), Sub(u[2], v[2]), Sub(u[3], v[3])>> :
         u \in {u0}, v \in {v0}})
VScale(a0, v0) ==
  The({<<Mul(a, v[1]), Mul(a, v[2]), Mul(a, v[3])>> : a \in {a0}, v \in {v0}})
VDiv(v0, a0) ==
  The({<<Div(v[1], a), Div(v[2], a), Div(v[3], a)>> : v \in {v0}, a \in {a0}})
VFinite(v) == \A c \in 1..3 : ~NonFinite(v[c])


----------------------------------------------------------------------------
(* The force closures of the two kernels, over num_t values.               *)

\* num_t(1e24) lies beyond the integers of the model checker; it is scaled
\* to a value that is still far above every other term of a denominator
HUGE == 10000

MaxCoord == 1
MaxVel == 1
MaxNumSteps == 10

\* sycl::sqrt(diff.x() * diff.x() + diff.y() * diff.y() + diff.z() * diff.z())
Norm(diff0) ==
  The({Sqrt(Add(Add(Mul(diff[1], diff[1]), Mul(diff[2], diff[2])),
                Mul(diff[3], diff[3]))) : diff \in {diff0}})

\* num_t(1e24) * num_t(i == id)
SelfTerm(i, id) == Mul(Num(HUGE), Num(IF i = id THEN 1 ELSE 0))

\* a gravity term whose denominator lacks the 1e24 summand
grav_term_nohuge(P, x, id, damping, i) ==
  The({VDiv(diff, Add(Mul(Mul(r, r), r), damping)) :
         diff \in {VSub(P[i], x)}, r \in {Norm(VSub(P[i], x))}})

\* diff / (r * r * r + num_t(1e24) * num_t(i == id) + damping)
grav_term(P, x, id, damping, i) ==
  The({VDiv(diff, Add(Add(Mul(Mul(r, r), r), SelfTerm(i, id)), damping)) :
         diff \in {VSub(P[i], x)}, r \in {Norm(VSub(P[i], x))}})

\* acc after the iterations 0 .. i-1 of grav's loop
RECURSIVE grav_loop(_, _, _, _, _)
grav_loop(P, x, id, damping, i) ==
  IF i = 0 THEN VZero
  ELSE VAdd(grav_loop(P, x, id, damping, i - 1),
            grav_term(P, x, id, damping, i - 1))

\* the closure grav of work item id, evaluated at position x
grav_num(P, x, id, G, damping) ==
  VScale(G, grav_loop(P, x, id, damping, Cardinality(DOMAIN P)))

\* pow(r, -8) * diff - 2 * pow(r, -14) * diff
lj_term(P, x, id, i) ==
  The({VSub(VScale(PowNeg(r, 8), diff),
            VScale(Mul(Num(2), PowNeg(r, 14)), diff)) :
         diff \in {VSub(P[i], x)},
         r \in {Add(Norm(VSub(P[i], x)), SelfTerm(i, id))}})

\* acc after the iterations 0 .. i-1 of force's loop
RECURSIVE lj_loop(_, _, _, _)
lj_loop(P, x, id, i) ==
  IF i = 0 THEN VZero
  ELSE VAdd(lj_loop(P, x, id, i - 1), lj_term(P, x, id, i - 1))

\* the closure force of work item id, evaluated at position x, with
\* A = 24 * eps * sigma
force(P, x, id, eps, sigma) ==
  VScale(Mul(Mul(Num(24), eps), sigma),
         lj_loop(P, x, id, Cardinality(DOMAIN P)))

\* the closure the kernel of configuration c hands to the integrator
Closure(c, P, x0, id) ==
  The({IF c.force = "GRAVITY" THEN grav_num(P, x, id, c.p1, c.p2)
       ELSE force(P, x, id, c.p1, c.p2) : x \in {x0}})


----------------------------------------------------------------------------
(* One step over num_t values: every work item applies the chosen         *)
(* integrator to the force closure over the read generation.  The bodies  *)
(* lie on the x axis, so that every distance is the square root of a      *)
(* square.                                                                 *)

\* STEP_SIZE as a num_t
Dt == Q(STEP_SIZE, 10)

\* explicit Euler: v1 = v0 + dt * f(v0, p0, t0), p1 = p0 + dt * v1;
\* xs are the positions at which the closure was called
euler_num(c, P, v0, p0, id) ==
  The({[vel |-> v1, pos |-> VAdd(p0, VScale(Dt, v1)), xs |-> <<p0>>] :
         v1 \in {VAdd(v0, VScale(Dt, Closure(c, P, p0, id)))}})

\* the weighted sum k1 + 2 k2 + 2 k3 + k4
Weighted(k1, k2, k3, k4) ==
  VAdd(VAdd(k1, VScale(Num(2), k2)), VAdd(VScale(Num(2), k3), k4))

\* the state of an RK4 stage: the start state advanced by a over the
\* derivative k
Stage(v0, p0, a, k) ==
  [v |-> VAdd(v0, VScale(a, k.dv)), p |-> VAdd(p0, VScale(a, k.dp))]

\* the derivative (dv, dp) of dv/dt = f(v, p, t), dp/dt = v at state s
Slope(c, P, s, id) == [dv |-> Closure(c, P, s.p, id), dp |-> s.v]

\* the combination of the four stage derivatives with the weights
\* 1, 2, 2, 1 scaled by dt/6; s2, s3, s4 are the states of the later stages
rk4_combine(v0, p0, k1, k2, k3, k4, s2, s3, s4) ==
  [vel |-> VAdd(v0, VScale(Div(Dt, Num(6)),
                           Weighted(k1.dv, k2.dv, k3.dv, k4.dv))),
   pos |-> VAdd(p0, VScale(Div(Dt, Num(6)),
                           Weighted(k1.dp, k2.dp, k3.dp, k4.dp))),
   xs |-> <<p0, s2.p, s3.p, s4.p>>]

rk4_stage4(c, P, v0, p0, id, k1, k2, k3, s2, s3) ==
  The({rk4_combine(v0, p0, k1, k2, k3, Slope(c, P, s4, id), s2, s3, s4) :
         s4 \in {Stage(v0, p0, Dt, k3)}})

rk4_stage3(c, P, v0, p0, id, k1, k2, s2) ==
  The({The({rk4_stage4(c, P, v0, p0, id, k1, k2, k3, s2, s3) :
              k3 \in {Slope(c, P, s3, id)}}) :
         s3 \in {Stage(v0, p0, Div(Dt, Num(2)), k2)}})

rk4_stage2(c, P, v0, p0, id, k1) ==
  The({The({rk4_stage3(c, P, v0, p0, id, k1, k2, s2) :
              k2 \in {Slope(c, P, s2, id)}}) :
         s2 \in {Stage(v0, p0, Div(Dt, Num(2)), k1)}})

\* fourth-order Runge-Kutta on dv/dt = f(v, p, t), dp/dt = v: the stages
\* are evaluated at t0, t0 + dt/2, t0 + dt/2, t0 + dt from the start,
\* midpoint, midpoint and endpoint states
rk4_num(c, P, v0, p0, id) ==
  The({rk4_stage2(c, P, v0, p0, id, k1) :
         k1 \in {Slope(c, P, [v |-> v0, p |-> p0], id)}})

\* a work item that hands vel[id] to the integrator as the position too
WorkItemNum_velpos(c, id) ==
  IF c.integrator = "EULER"
    THEN euler_num(c, c.pos, c.vel[id], c.vel[id], id)
    ELSE rk4_num(c, c.pos, c.vel[id], c.vel[id], id)

\* the kernel lambda of work item id over num_t values: the integrator is
\* called with the closure, STEP_SIZE, vel[id] and pos[id]
WorkItemNum(c, id) ==
  IF c.integrator = "EULER"
    THEN euler_num(c, c.pos, c.vel[id], c.pos[id], id)
    ELSE rk4_num(c, c.pos, c.vel[id], c.pos[id], id)

OnAxis(x) == Vec(Num(x), Zero, Zero)

\* n bodies on the x axis, numbered along it; two bodies may coincide
Placements(n) ==
  {xs \in [Bodies(n) -> 0..MaxCoord] :
     \A i \in Bodies(n), j \in Bodies(n) : i < j => xs[i] <= xs[j]}

\* a simulation whose force, parameters and integrator have been set, with
\* n bodies on the x axis that have a common initial velocity
InitNum ==
  /\ buffer = "USE_A"
  /\ m_a = 0
  /\ m_b = 0
  /\ db = NoCall
  /\ SimOff
  /\ life = NoLife
  /\ \E n \in 1..MaxBodies :
       \E f \in {"GRAVITY", "LENNARD_JONES"}, g \in {"EULER", "RK4"},
          a \in 0..MaxParam, b \in 0..MaxParam,
          xs \in Placements(n), v \in 0..MaxVel :
         calc = [valid |-> TRUE, force |-> f, integrator |-> g,
                 p1 |-> Num(a), p2 |-> Num(b), n |-> n,
                 pos0 |-> [i \in Bodies(n) |-> OnAxis(xs[i])],
                 vel0 |-> [i \in Bodies(n) |-> OnAxis(v)],
                 pos |-> [i \in Bodies(n) |-> OnAxis(xs[i])],
                 vel |-> [i \in Bodies(n) |-> OnAxis(v)],
                 rpos |-> [i \in Bodies(n) |-> OnAxis(xs[i])],
                 evals |-> [i \in Bodies(n) |-> <<>>],
                 acc |-> [i \in Bodies(n) |-> VZero],
                 steps |-> 0]

\* one step: parallel_for over the bodies, then swap
NumStep ==
  /\ calc.valid
  /\ calc.steps < MaxNumSteps
  /\ \E R \in {[id \in Bodies(calc.n) |-> WorkItemNum(calc, id)]} :
        calc' = [calc EXCEPT
                   !.vel = [id \in Bodies(calc.n) |-> R[id].vel],
                   !.pos = [id \in Bodies(calc.n) |-> R[id].pos],
                   !.rpos = calc.pos,
                   !.evals = [id \in Bodies(calc.n) |-> R[id].xs],
                   !.acc = [id \in Bodies(calc.n) |->
                              Closure(calc, calc.pos, calc.pos[id], id)],
                   !.steps = @ + 1]
  /\ UNCHANGED <<buffer, m_a, m_b, db, simvars, life>>

NextNum == NumStep

SpecNum == InitNum /\ [][NextNum]_vars


----------------------------------------------------------------------------
(* Force and integrator properties (checked under SpecNum)                 *)

\* C13: no force evaluation in a step divides by zero or raises zero to a
\* negative power: for every arrangement of the bodies, two distinct bodies
\* at the same position and the self term included, and for non-zero model
\* parameters, the gravity and the Lennard-Jones acceleration are finite.
C13_ForceFinite ==
  (calc.valid /\ calc.steps > 0 /\ ~IsZero(calc.p1) /\ ~IsZero(calc.p2)) =>
    \A id \in Bodies(calc.n) : VFinite(calc.acc[id])


\* the bodies of a configuration that C14 is about
StillPair ==
  /\ calc.valid
  /\ calc.force = "GRAVITY"
  /\ IsZero(calc.p1)
  /\ IsZero(calc.p2)
  /\ calc.n = 2
  /\ calc.pos0[0] # calc.pos0[1]
  /\ \A i \in Bodies(calc.n) : calc.vel0[i] = VZero

\* C14: with the gravity force, G = 0 and damping = 0, and two bodies at
\* distinct positions with zero initial velocity, every one of 10
\* consecutive steps leaves the read generation's positions and velocities
\* equal to the initial ones, for both integrators.
C14_StillBodiesStay ==
  StillPair => (calc.pos = calc.pos0 /\ calc.vel = calc.vel0)

C14_Witness ==
  StillPair /\ calc.steps = 10 /\ calc.integrator = "RK4"
    /\ calc.pos = calc.pos0 /\ calc.vel = calc.vel0

\* pos[id] - x for the s-th call of the closure by work item id in the
\* last step: the numerator of the self term
SelfNumerator(id, s) == VSub(calc.rpos[id], calc.evals[id][s])

Exact(v) == \A c \in 1..3 : v[c].k = "q"

\* C17 as stated: in every force evaluation made during a step, under
\* either integrator and in the intermediate stages of RK4 too, the self
\* term has the zero vector as numerator: the force is evaluated at the
\* read-generation position of the body.
C17_SelfNumeratorZero ==
  calc.valid =>
    \A id \in Bodies(calc.n) : \A s \in DOMAIN calc.evals[id] :
      Exact(SelfNumerator(id, s)) => SelfNumerator(id, s) = VZero

\* C17, amended: the Euler evaluation and the first RK4 stage are made at
\* the read-generation position of the body, where the numerator of the
\* self term is the zero vector; Euler makes no other evaluation.
C17_FirstStageAtOwnPosition ==
  (calc.valid /\ calc.steps > 0) =>
    \A id \in Bodies(calc.n) :
      /\ calc.evals[id][1] = calc.rpos[id]
      /\ Exact(calc.rpos[id]) => SelfNumerator(id, 1) = VZero
      /\ calc.integrator = "EULER" => Len(calc.evals[id]) = 1

C17_Witness ==
  /\ calc.valid
  /\ calc.integrator = "RK4"
  /\ calc.steps = 1
  /\ Len(calc.evals[0]) = 4
  /\ SelfNumerator(0, 1) = VZero
  /\ Exact(SelfNumerator(0, 2))
  /\ SelfNumerator(0, 2) # VZero


----------------------------------------------------------------------------
(* GameOfLifeSim: m_game is a DoubleBuf<GameGrid> held in buffer, m_a and  *)
(* m_b; the other members are the fields of life.  A cell of a buffer is   *)
(* symbolic: what wrote it (nothing yet, a click, a work item), in which   *)
(* step, and for a click its state.                                        *)

MaxWidth == 2
MaxHeight == 1
MaxClicks == 2
MaxLifeSteps == 2

\* the index space of cells and vels, sycl::range<2>(width, height)
Grid(w, h) == (0..(w - 1)) \X (0..(h - 1))

\* the index space of img, sycl::range<2>(height, width)
ImgGrid(w, h) == (0..(h - 1)) \X (0..(w - 1))

\* an element no one has written since the buffer was constructed
Unwritten(at) ==
  [by |-> "none", step |-> 0, at |-> at, st |-> "UNINIT", id |-> 0,
   oob |-> FALSE]

\* GameGrid(width, height)
GameGrid(w, h) ==
  [cells |-> [c \in Grid(w, h) |-> Unwritten(c)],
   vels |-> [c \in Grid(w, h) |-> Unwritten(c)],
   img |-> [p \in ImgGrid(w, h) |-> Unwritten(p)]]

NoJob == [valid |-> FALSE, step |-> 0, rd |-> "a", wr |-> "b"]

NoLog == [valid |-> FALSE]

NoImg == [valid |-> FALSE]

\* GameOfLifeSim(width, height)
InitLife ==
  /\ buffer = "USE_A"
  /\ db = NoCall
  /\ SimOff
  /\ calc = NoCalc
  /\ \E w \in 1..MaxWidth, h \in 1..MaxHeight :
       /\ m_a = GameGrid(w, h)
       /\ m_b = GameGrid(w, h)
       /\ life = [valid |-> TRUE, m_width |-> w, m_height |-> h,
                  m_clicks |-> <<>>, nclicks |-> 0, applied |-> <<>>,
                  job |-> NoJob, log |-> NoLog, view |-> NoImg,
                  steps |-> 0, nflips |-> 0]

\* m_clicks.emplace_back(x, y, state); id numbers the calls
add_click(x, y, state) ==
  /\ life.valid
  /\ life.nclicks < MaxClicks
  /\ life' = [life EXCEPT
       !.m_clicks = Append(@, [x |-> x, y |-> y, state |-> state,
                               id |-> life.nclicks + 1]),
       !.nclicks = @ + 1,
       !.view = NoImg]
  /\ UNCHANGED <<buffer, m_a, m_b, db, simvars, calc>>

\* acc[sycl::id<2>(x, y)] = state, written while step `step` applies clicks
Clicked(press, step) ==
  [by |-> "click", step |-> step, at |-> <<press.x, press.y>>,
   st |-> press.state, id |-> press.id, oob |-> FALSE]

\* a loop that takes the last click only and drops the others
ApplyClicks_lastonly(cells, clicks, step) ==
  IF clicks = <<>> THEN [cells |-> cells, applied |-> <<>>, left |-> <<>>]
  ELSE LET press == clicks[Len(clicks)]
       IN [cells |-> [cells EXCEPT ![<<press.x, press.y>>] =
                        Clicked(press, step)],
           applied |-> <<press.id>>,
           left |-> SubSeq(clicks, 1, Len(clicks) - 1)]

\* while (!m_clicks.empty()) { press = back(); pop_back(); acc[..] = .. }
RECURSIVE ApplyClicks(_, _, _)
ApplyClicks(cells, clicks, step) ==
  IF clicks = <<>> THEN [cells |-> cells, applied |-> <<>>, left |-> clicks]
  ELSE LET press == clicks[Len(clicks)]
           rest == ApplyClicks([cells EXCEPT ![<<press.x, press.y>>] =
                                  Clicked(press, step)],
                               SubSeq(clicks, 1, Len(clicks) - 1), step)
       IN [cells |-> rest.cells, applied |-> <<press.id>> \o rest.applied,
           left |-> rest.left]


\* internal_step: the host accessor on read().cells waits for the kernel
\* that wrote that buffer; the clicks are applied, the command group is
\* submitted with its accessors on read() and write(), and m_game is swapped
internal_step ==
  /\ life.valid
  /\ ~life.job.valid
  /\ life.steps < MaxLifeSteps
  /\ LET step == life.steps + 1
         r == ApplyClicks(Deref(read(buffer)).cells, life.m_clicks, step)
     IN /\ m_a' = IF read(buffer) = "a" THEN [m_a EXCEPT !.cells = r.cells]
                  ELSE m_a
        /\ m_b' = IF read(buffer) = "b" THEN [m_b EXCEPT !.cells = r.cells]
                  ELSE m_b
        /\ life' = [life EXCEPT
             !.m_clicks = r.left,
             !.applied = @ \o r.applied,
             !.job = [valid |-> TRUE, step |-> step,
                      rd |-> read(buffer), wr |-> write(buffer)],
             !.steps = step,
             !.nflips = @ + 1,
             !.view = NoImg]
  /\ buffer' = swap(buffer)
  /\ UNCHANGED <<db, simvars, calc>>

\* the remainder of int division as C++ computes it: truncated towards zero
Rem(a, b) == IF a >= 0 THEN a % b ELSE 0 - ((0 - a) % b)

\* [](int ind, int offset, int max_size) { return (ind + offset) % max_size; }
process_index(ind, offset, max_size) == Rem(ind + offset, max_size)

\* the (offset_i, offset_j) pairs of the neighbour loop
Offsets ==
  {o \in ((0 - 1)..1) \X ((0 - 1)..1) : o[2] # 0 \/ o[1] # 0}

\* the indices at which work item (x, y) reads r: the eight neighbours,
\* then r[item]
ItemReads(x, y, w, h) ==
  {<<process_index(x, o[1], w), process_index(y, o[2], h)>> : o \in Offsets}
    \cup {<<x, y>>}

\* what work item `item` of step `step` stores into w[item], wv[item] and
\* img[sycl::id<2>(y, x)]
Produced(item, step, w, h) ==
  [by |-> "kernel", step |-> step, at |-> item, st |-> "rule", id |-> 0,
   oob |-> ~(ItemReads(item[1], item[2], w, h) \subseteq Grid(w, h))]

\* the work items that write pixel p of img
PixelWriters(p, w, h) == {item \in Grid(w, h) : <<item[2], item[1]>> = p}

\* the parallel_for over range<2>(width, height) of the submitted kernel
Kernel ==
  /\ life.valid
  /\ life.job.valid
  /\ LET j == life.job
         w == life.m_width
         h == life.m_height
         R == Deref(j.rd)
         W == Deref(j.wr)
         reads == UNION {ItemReads(item[1], item[2], w, h) : item \in Grid(w, h)}
         out == [cells |-> [c \in Grid(w, h) |-> Produced(c, j.step, w, h)],
                 vels |-> [c \in Grid(w, h) |-> Produced(c, j.step, w, h)],
                 img |-> [p \in ImgGrid(w, h) |->
                            IF PixelWriters(p, w, h) = {} THEN W.img[p]
                            ELSE Produced(CHOOSE item \in PixelWriters(p, w, h) : TRUE,
                                          j.step, w, h)]]
     IN /\ m_a' = IF j.wr = "a" THEN out ELSE m_a
        /\ m_b' = IF j.wr = "b" THEN out ELSE m_b
        /\ life' = [life EXCEPT
             !.job = NoJob,
             !.log = [valid |-> TRUE, step |-> j.step, rd |-> j.rd,
                      wr |-> j.wr, reads |-> reads,
                      seen |-> [c \in reads \cap Grid(w, h) |-> R.cells[c]],
                      wcells |-> [c \in Grid(w, h) |->
                                    Cardinality({item \in Grid(w, h) : item = c})],
                      wimg |-> [p \in ImgGrid(w, h) |->
                                  Cardinality(PixelWriters(p, w, h))]]]
  /\ UNCHANGED <<buffer, db, simvars, calc>>

\* with_img: the host accessor on read().img waits for the kernel that
\* writes it
with_img ==
  /\ life.valid
  /\ ~life.job.valid
  /\ life' = [life EXCEPT
       !.view = [valid |-> TRUE, steps |-> life.steps,
                 img |-> Deref(read(buffer)).img]]
  /\ UNCHANGED <<buffer, m_a, m_b, db, simvars, calc>>

\* a click on a cell of the grid
AddClick ==
  \E x \in 0..(life.m_width - 1), y \in 0..(life.m_height - 1),
     state \in {"LIVE", "DEAD"} : add_click(x, y, state)

NextLife ==
  \/ AddClick
  \/ internal_step
  \/ Kernel
  \/ with_img

SpecLife == InitLife /\ [][NextLife]_vars


----------------------------------------------------------------------------
(* GameOfLifeSim properties (checked under SpecLife)                       *)

\* C19: each Game-of-Life step reads cell states and velocities only from
\* the read generation, writes the new state, velocity and image pixel of
\* every cell of the width x height grid exactly once into the write
\* generation, and then swaps exactly once, so that after the step
\* with_img exposes the image computed by that step.
C19_LifeStepDoubleBuffered ==
  (life.valid /\ life.log.valid) =>
    /\ life.log.rd # life.log.wr
    /\ life.log.reads \subseteq Grid(life.m_width, life.m_height)
    /\ \A c \in Grid(life.m_width, life.m_height) : life.log.wcells[c] = 1
    /\ \A p \in ImgGrid(life.m_width, life.m_height) : life.log.wimg[p] = 1
    /\ life.nflips = life.steps
    /\ life.view.valid =>
         \A p \in ImgGrid(life.m_width, life.m_height) :
           /\ life.view.img[p].by = "kernel"
           /\ life.view.img[p].step = life.steps
           /\ life.view.img[p].at = <<p[2], p[1]>>

\* the clicks recorded so far that are not pending
Processed ==
  {id \in 1..life.nclicks :
     \A k \in DOMAIN life.m_clicks : life.m_clicks[k].id # id}

\* how many times click id has been written into a grid
TimesApplied(id) ==
  Cardinality({k \in DOMAIN life.applied : life.applied[k] = id})

\* C20: click processing is deferred: add_click only appends to the pending
\* list and changes no grid; the next step applies every pending click to
\* the cells of the read generation before the kernel reads them, and the
\* pending list is empty when the step ends, so no click is lost and none
\* is applied twice.
C20_ClicksDeferred ==
  /\ [](life.valid =>
          /\ \A id \in 1..life.nclicks :
               TimesApplied(id) = IF id \in Processed THEN 1 ELSE 0
          /\ life.log.valid =>
               \A c \in DOMAIN life.log.seen :
                 life.log.seen[c].by = "click" =>
                   life.log.seen[c].id \in Processed)
  /\ [][/\ AddClick =>
             /\ m_a' = m_a
             /\ m_b' = m_b
             /\ buffer' = buffer
             /\ SubSeq(life'.m_clicks, 1, Len(life.m_clicks)) = life.m_clicks
             /\ Len(life'.m_clicks) = Len(life.m_clicks) + 1
        /\ internal_step =>
             /\ life'.m_clicks = <<>>
             /\ \A k \in DOMAIN life.m_clicks :
                  LET press == life.m_clicks[k]
                      grid == IF life'.job.rd = "a" THEN m_a' ELSE m_b'
                      cell == grid.cells[<<press.x, press.y>>]
                  IN /\ cell.by = "click"
                     /\ cell.step = life'.steps
                     /\ cell.at = <<press.x, press.y>>]_vars

C20_Witness ==
  /\ life.valid
  /\ life.log.valid
  /\ life.m_clicks = <<>>
  /\ life.nclicks = 2
  /\ Processed = {1, 2}
  /\ TimesApplied(1) = 1
  /\ TimesApplied(2) = 1
  /\ \E c \in DOMAIN life.log.seen :
       life.log.seen[c].by = "click" /\ life.log.seen[c].step = life.log.step


----------------------------------------------------------------------------
(* GravSim selections (checked under Spec)                                 *)

\* C24: from the end of construction on, whether or not set_integrator has
\* been called, the integrator selection is one of EULER and RK4 and the
\* force selection one of GRAVITY and LENNARD_JONES, so every per-body unit
\* of every step takes one of the two integrator branches.
C24_SelectionsValid ==
  pc \in {"idle", "submitted", "swapped"} =>
    /\ m_integrator \in {"EULER", "RK4"}
    /\ m_force \in {"GRAVITY", "LENNARD_JONES"}
    /\ \A q \in Queued : \A id \in Bodies(q.n) :
         WorkItem(q, id, Deref(UnitSource(q))).write


----------------------------------------------------------------------------
(* GravSim setters and the parameter copies of a step (SpecSet).  The      *)
(* engine is the record calc; parameters are counted in units of 1e-5, a   *)
(* generation is named by what wrote it last: 0 nothing, 1 the             *)
(* constructor's sample, 1 + k the kernel of step k.                       *)

MaxCalls == 2

DefaultG == 1
DefaultDamping == 1
DefaultEps == 100000
DefaultSigma == 100

\* void set_force_type(force_t force) { m_force = force; }
set_force_type_on(s, f) == [s EXCEPT !.m_force = f]

\* void set_integrator(integrator_t integrator) { m_integrator = integrator; }
set_integrator_on(s, integrator) == [s EXCEPT !.m_integrator = integrator]

\* a set_grav_damping that assigns the other member of m_grav_params
set_grav_damping_G(s, damping) == [s EXCEPT !.m_grav_params.G = damping]

\* void set_grav_damping(num_t damping) { m_grav_params.damping = damping; }
set_grav_damping(s, damping) == [s EXCEPT !.m_grav_params.damping = damping]

\* void set_grav_G(num_t G) { m_grav_params.G = G; }
set_grav_G(s, G) == [s EXCEPT !.m_grav_params.G = G]

\* void set_lj_eps(num_t eps) { m_lj_params.eps = eps; }
set_lj_eps(s, eps) == [s EXCEPT !.m_lj_params.eps = eps]

\* void set_lj_sigma(num_t sigma) { m_lj_params.sigma = sigma; }
set_lj_sigma(s, sigma) == [s EXCEPT !.m_lj_params.sigma = sigma]

NoSetter == [valid |-> FALSE, name |-> "none", arg |-> 0]

NoCopies == [valid |-> FALSE]

\* the engine right after GravSim(n_bodies, distrib): the sample is in the
\* generation the constructor wrote and swapped to the read side, the
\* integrator is whatever the uninitialized member holds
InitSet ==
  /\ buffer = "USE_A"
  /\ m_a = 0
  /\ m_b = 0
  /\ db = NoCall
  /\ SimOff
  /\ life = NoLife
  /\ \E n \in 1..MaxBodies, g \in {"EULER", "RK4", "INDETERMINATE"} :
       calc = [valid |-> TRUE,
               m_bufs |-> [flag |-> swap("USE_A"), a |-> 0, b |-> 1],
               m_n_bodies |-> n,
               m_time |-> 0,
               m_force |-> "GRAVITY",
               m_integrator |-> g,
               m_grav_params |-> [G |-> DefaultG, damping |-> DefaultDamping],
               m_lj_params |-> [eps |-> DefaultEps, sigma |-> DefaultSigma],
               kernel |-> NoCopies,
               call |-> NoSetter,
               ncalls |-> 0,
               steps |-> 0]

\* a setter call made by the host: s1 is the engine the setter leaves
Call(name, arg, s1) ==
  /\ calc.valid
  /\ calc.ncalls < MaxCalls
  /\ calc' = [s1 EXCEPT !.call = [valid |-> TRUE, name |-> name, arg |-> arg],
                        !.ncalls = @ + 1]
  /\ UNCHANGED <<buffer, m_a, m_b, db, simvars, life>>

SetForceType ==
  \E f \in {"GRAVITY", "LENNARD_JONES"} :
    Call("set_force_type", f, set_force_type_on(calc, f))

SetIntegrator ==
  \E integrator \in {"EULER", "RK4"} :
    Call("set_integrator", integrator, set_integrator_on(calc, integrator))

SetGravDamping ==
  \E damping \in 0..MaxParam :
    Call("set_grav_damping", damping, set_grav_damping(calc, damping))

SetGravG ==
  \E G \in 0..MaxParam : Call("set_grav_G", G, set_grav_G(calc, G))

SetLjEps ==
  \E eps \in 0..MaxParam : Call("set_lj_eps", eps, set_lj_eps(calc, eps))

SetLjSigma ==
  \E sigma \in 0..MaxParam :
    Call("set_lj_sigma", sigma, set_lj_sigma(calc, sigma))

\* the copies the command group of internal_step takes for its kernel: t,
\* n_bodies and integrator always, then G and damping in the GRAVITY case
\* and eps, sigma and A = 24 * eps * sigma in the LENNARD_JONES case
Copies(s) ==
  IF s.m_force = "GRAVITY"
  THEN [valid |-> TRUE, force |-> s.m_force, t |-> s.m_time,
        n_bodies |-> s.m_n_bodies, integrator |-> s.m_integrator,
        G |-> s.m_grav_params.G, damping |-> s.m_grav_params.damping]
  ELSE [valid |-> TRUE, force |-> s.m_force, t |-> s.m_time,
        n_bodies |-> s.m_n_bodies, integrator |-> s.m_integrator,
        eps |-> s.m_lj_params.eps, sigma |-> s.m_lj_params.sigma,
        A |-> 24 * s.m_lj_params.eps * s.m_lj_params.sigma]

\* internal_step on the engine record: the command group takes its copies
\* and names the write generation as the kernel's target, then the flag is
\* swapped and the time advanced
StepSet ==
  /\ calc.valid
  /\ calc.steps < MaxSteps
  /\ calc' = [calc EXCEPT
                !.kernel = [copies |-> Copies(calc), after |-> calc.call,
                            valid |-> TRUE],
                !.m_bufs = [flag |-> swap(@.flag),
                            a |-> IF write(@.flag) = "a"
                                  THEN 2 + calc.steps ELSE @.a,
                            b |-> IF write(@.flag) = "b"
                                  THEN 2 + calc.steps ELSE @.b],
                !.m_time = @ + STEP_SIZE,
                !.call = NoSetter,
                !.steps = @ + 1]
  /\ UNCHANGED <<buffer, m_a, m_b, db, simvars, life>>

NextSet ==
  \/ SetForceType
  \/ SetIntegrator
  \/ SetGravDamping
  \/ SetGravG
  \/ SetLjEps
  \/ SetLjSigma
  \/ StepSet

SpecSet == InitSet /\ [][NextSet]_vars

\* the members of the engine, by name
Members(s) ==
  [m_force |-> s.m_force, m_integrator |-> s.m_integrator,
   G |-> s.m_grav_params.G, damping |-> s.m_grav_params.damping,
   eps |-> s.m_lj_params.eps, sigma |-> s.m_lj_params.sigma,
   flag |-> s.m_bufs.flag, gen_a |-> s.m_bufs.a, gen_b |-> s.m_bufs.b,
   m_n_bodies |-> s.m_n_bodies, m_time |-> s.m_time]

\* the member a setter names
Named(name) ==
  CASE name = "set_force_type" -> "m_force"
    [] name = "set_integrator" -> "m_integrator"
    [] name = "set_grav_damping" -> "damping"
    [] name = "set_grav_G" -> "G"
    [] name = "set_lj_eps" -> "eps"
    [] name = "set_lj_sigma" -> "sigma"

\* the copy a kernel holds of the member a setter names, if it takes one
Holds(k, name) ==
  CASE name = "set_force_type" -> {k.force}
    [] name = "set_integrator" -> {k.integrator}
    [] name = "set_grav_damping" ->
         IF k.force = "GRAVITY" THEN {k.damping} ELSE {}
    [] name = "set_grav_G" -> IF k.force = "GRAVITY" THEN {k.G} ELSE {}
    [] name = "set_lj_eps" ->
         IF k.force = "LENNARD_JONES" THEN {k.eps} ELSE {}
    [] name = "set_lj_sigma" ->
         IF k.force = "LENNARD_JONES" THEN {k.sigma} ELSE {}

\* C25: each setter changes only the one selection or parameter it names
\* (the named member takes the argument; the other selections and
\* parameters, the role flag, both generations, n_bodies and time are
\* unchanged), and the step that follows a setter call takes its copy of
\* the named member, where it takes one, with the new value.
C25_SettersFramed ==
  /\ [](calc.valid /\ calc.kernel.valid /\ calc.kernel.after.valid =>
          \A v \in Holds(calc.kernel.copies, calc.kernel.after.name) :
             v = calc.kernel.after.arg)
  /\ [][calc.valid /\ calc'.call.valid /\ calc'.ncalls # calc.ncalls =>
          /\ Members(calc')[Named(calc'.call.name)] = calc'.call.arg
          /\ \A f \in DOMAIN Members(calc) \ {Named(calc'.call.name)} :
               Members(calc')[f] = Members(calc)[f]
          /\ calc'.kernel = calc.kernel]_vars

\* a step has followed a call of a parameter setter that changed the
\* parameter, and its kernel holds a copy of that parameter
C25_Witness ==
  /\ calc.valid
  /\ calc.kernel.valid
  /\ calc.kernel.after.valid
  /\ calc.kernel.after.name = "set_lj_sigma"
  /\ calc.kernel.after.arg # DefaultSigma
  /\ Holds(calc.kernel.copies, "set_lj_sigma") # {}


----------------------------------------------------------------------------
(* Game-of-Life neighbour indices (checked under SpecLife)                 *)

\* C23: for every cell (x, y) of the grid, row 0, column 0, the last row
\* and the last column included, each of the 8 neighbour coordinates
\* computed by process_index lies in [0, width) x [0, height), so the
\* kernel never reads outside the cells buffer.
C23_NeighboursInGrid ==
  (life.valid /\ life.log.valid) =>
    \A item \in Grid(life.m_width, life.m_height) : \A o \in Offsets :
      /\ process_index(item[1], o[1], life.m_width) \in 0..(life.m_width - 1)
      /\ process_index(item[2], o[2], life.m_height) \in 0..(life.m_height - 1)
      /\ <<process_index(item[1], o[1], life.m_width),
           process_index(item[2], o[2], life.m_height)>> \in life.log.reads

----------------------------------------------------------------------------
(* Conway's rule in one work item of the Game-of-Life kernel (SpecRule).   *)
(* calc holds a read generation of concrete cell states and the work item  *)
(* evaluated on it.                                                        *)

MaxCols == 2
MaxRows == 2

\* the (offset_i, offset_j) pairs in the order the neighbour loop visits
\* them: offset_j from 1 down to -1, offset_i from -1 up to 1, (0, 0) left
\* out
OffsetSeq ==
  << <<0 - 1, 1>>, <<0, 1>>, <<1, 1>>,
     <<0 - 1, 0>>, <<1, 0>>,
     <<0 - 1, 0 - 1>>, <<0, 0 - 1>>, <<1, 0 - 1>> >>

\* the index the k-th read of work item (x, y) is made at
ReadAt(x, y, k, w, h) ==
  <<process_index(x, OffsetSeq[k][1], w), process_index(y, OffsetSeq[k][2], h)>>

\* the values live[0..7] can take: r[id] == LIVE where id is in the buffer,
\* either value where the read is outside it
LiveArrays(r, x, y, w, h) ==
  {live \in [1..8 -> BOOLEAN] :
     \A k \in 1..8 :
       ReadAt(x, y, k, w, h) \in Grid(w, h) =>
         live[k] = (r[ReadAt(x, y, k, w, h)] = "LIVE")}

RECURSIVE CountLive(_, _)
\* live_neighbours += live[i] for i below n
CountLive(live, n) ==
  IF n = 0 THEN 0 ELSE CountLive(live, n - 1) + (IF live[n] THEN 1 ELSE 0)

\* the if chain of the rules
new_state(own, live_neighbours) ==
  IF own = "LIVE"
  THEN IF live_neighbours < 2 THEN "DEAD"
       ELSE IF live_neighbours < 4 THEN "LIVE"
       ELSE "DEAD"
  ELSE IF live_neighbours = 3 THEN "LIVE"
  ELSE "DEAD"

NoItem == [valid |-> FALSE]

InitRule ==
  /\ buffer = "USE_A"
  /\ m_a = 0
  /\ m_b = 0
  /\ db = NoCall
  /\ SimOff
  /\ life = NoLife
  /\ \E w \in 1..MaxCols, h \in 1..MaxRows :
       \E r \in [Grid(w, h) -> {"LIVE", "DEAD"}] :
         calc = [valid |-> TRUE, width |-> w, height |-> h, r |-> r,
                 out |-> NoItem]

\* one work item of the parallel_for, up to w[item] = new_state
RuleItem ==
  /\ calc.valid
  /\ ~calc.out.valid
  /\ \E item \in Grid(calc.width, calc.height) :
       \E live \in LiveArrays(calc.r, item[1], item[2], calc.width,
                              calc.height) :
         calc' = [calc EXCEPT !.out =
                    [valid |-> TRUE, item |-> item, live |-> live,
                     live_neighbours |-> CountLive(live, 8),
                     w |-> new_state(calc.r[item], CountLive(live, 8))]]
  /\ UNCHANGED <<buffer, m_a, m_b, db, simvars, life>>

NextRule == RuleItem

SpecRule == InitRule /\ [][NextRule]_vars

\* the k-th neighbour of (x, y) on the grid wrapped around its edges
Wrapped(x, y, k, w, h) ==
  <<(x + OffsetSeq[k][1] + w) % w, (y + OffsetSeq[k][2] + h) % h>>

\* the number of live cells among the 8 neighbours of (x, y) in r
LiveAround(r, x, y, w, h) ==
  Cardinality({k \in 1..8 : r[Wrapped(x, y, k, w, h)] = "LIVE"})

\* C21: the kernel advances each cell by Conway's rules on its 8 neighbours
\* in the read generation: a live cell stays live exactly when it has 2 or 3
\* live neighbours, a dead cell becomes live exactly when it has 3, and
\* every other cell is dead in the new generation.
C21_ConwayRule ==
  (calc.valid /\ calc.out.valid) =>
    LET x == calc.out.item[1]
        y == calc.out.item[2]
        n == LiveAround(calc.r, x, y, calc.width, calc.height)
        own == calc.r[calc.out.item]
    IN /\ calc.out.w \in {"LIVE", "DEAD"}
       /\ calc.out.w = "LIVE" <=>
            \/ own = "LIVE" /\ n \in {2, 3}
            \/ own = "DEAD" /\ n = 3


----------------------------------------------------------------------------
(* Order of the clicks of one step (checked under SpecLife)                *)

\* C26: when several clicks on the same cell are recorded before a step,
\* the step applies them in the order they were recorded, so the state the
\* cell has when the kernel reads it is the state of the click recorded
\* last.
C26_ClicksInRecordedOrder ==
  [][internal_step =>
       /\ SubSeq(life'.applied, Len(life.applied) + 1, Len(life'.applied)) =
            [k \in 1..Len(life.m_clicks) |-> life.m_clicks[k].id]
       /\ \A k \in DOMAIN life.m_clicks :
            LET press == life.m_clicks[k]
                grid == IF life'.job.rd = "a" THEN m_a' ELSE m_b'
                cell == grid.cells[<<press.x, press.y>>]
            IN (\A l \in DOMAIN life.m_clicks :
                  (l > k) => <<life.m_clicks[l].x, life.m_clicks[l].y>> #
                               <<press.x, press.y>>) =>
                 /\ cell.st = press.state
                 /\ cell.id = press.id]_vars


----------------------------------------------------------------------------
(* how_mandel of the Mandelbrot kernel (SpecMandel).  calc holds one call: *)
(* the point (re, im), the loop counter i, z and abs_sq, and the value     *)
(* returned.  The points are the integer points of the plane, on which     *)
(* num_t arithmetic is exact.                                              *)

MaxRe == 1
MaxIm == 1

MAX_ITERS == 500
DIVERGENCE_LIMIT == 256

NoReturn == [k |-> "none", i |-> 0, abs_sq |-> 0]

\* num_t(i) + num_t(1) - nu, with nu = log(log(abs_sq) / 2 / log_2) / log_2
\* kept as the pair it is computed from
Smooth(i, abs_sq) == [k |-> "i + 1 - nu", i |-> i, abs_sq |-> abs_sq]

\* a return of the number v
Plain(v) == [k |-> "number", i |-> v, abs_sq |-> 0]

InitMandel ==
  /\ buffer = "USE_A"
  /\ m_a = 0
  /\ m_b = 0
  /\ db = NoCall
  /\ SimOff
  /\ life = NoLife
  /\ \E re \in (0 - MaxRe)..MaxRe, im \in (0 - MaxIm)..MaxIm :
       calc = [valid |-> TRUE, re |-> re, im |-> im, i |-> 0, z_re |-> 0,
               z_im |-> 0, abs_sq |-> 0, ret |-> NoReturn]

\* z after one more iteration of the loop body
z_next(c) ==
  [z_re |-> c.z_re * c.z_re - c.z_im * c.z_im + c.re,
   z_im |-> 2 * c.z_re * c.z_im + c.im]

abs_sq_of(z) == z.z_re * z.z_re + z.z_im * z.z_im

\* an iteration of the loop whose abs_sq stays below DIVERGENCE_LIMIT
Iterate ==
  /\ calc.valid
  /\ calc.ret = NoReturn
  /\ calc.i < MAX_ITERS
  /\ abs_sq_of(z_next(calc)) < DIVERGENCE_LIMIT
  /\ calc' = [calc EXCEPT !.z_re = z_next(calc).z_re,
                          !.z_im = z_next(calc).z_im,
                          !.abs_sq = abs_sq_of(z_next(calc)),
                          !.i = @ + 1]
  /\ UNCHANGED <<buffer, m_a, m_b, db, simvars, life>>

\* an iteration whose abs_sq reaches DIVERGENCE_LIMIT: the return inside the
\* loop
Diverge ==
  /\ calc.valid
  /\ calc.ret = NoReturn
  /\ calc.i < MAX_ITERS
  /\ abs_sq_of(z_next(calc)) >= DIVERGENCE_LIMIT
  /\ calc' = [calc EXCEPT !.z_re = z_next(calc).z_re,
                          !.z_im = z_next(calc).z_im,
                          !.abs_sq = abs_sq_of(z_next(calc)),
                          !.ret = Smooth(calc.i, abs_sq_of(z_next(calc)))]
  /\ UNCHANGED <<buffer, m_a, m_b, db, simvars, life>>

\* the loop condition i < MAX_ITERS fails: return num_t(1)
Exhaust ==
  /\ calc.valid
  /\ calc.ret = NoReturn
  /\ ~(calc.i < MAX_ITERS)
  /\ calc' = [calc EXCEPT !.ret = Plain(1)]
  /\ UNCHANGED <<buffer, m_a, m_b, db, simvars, life>>

NextMandel ==
  \/ Iterate
  \/ Diverge
  \/ Exhaust

SpecMandel == InitMandel /\ [][NextMandel]_vars

\* C22: how_mandel stops after at most MAX_ITERS iterations, returns at the
\* first iteration whose squared magnitude reaches DIVERGENCE_LIMIT, and
\* for a point that does not diverge within MAX_ITERS iterations returns
\* MAX_ITERS.
C22_HowMandel ==
  calc.valid =>
    /\ calc.i <= MAX_ITERS
    /\ calc.ret = NoReturn => calc.abs_sq < DIVERGENCE_LIMIT
    /\ calc.ret.k = "i + 1 - nu" =>
         /\ calc.abs_sq >= DIVERGENCE_LIMIT
         /\ calc.ret = Smooth(calc.i, calc.abs_sq)
    /\ calc.ret.k = "number" =>
         /\ calc.i = MAX_ITERS
         /\ calc.abs_sq < DIVERGENCE_LIMIT
         /\ calc.ret = Plain(MAX_ITERS)

====
